---- MODULE Spec2Model ----
(***************************************************************************)
(* Fan control of jetson_stats: the service side (jtop/core/fan.py,        *)
(* FanService and the nvfancontrol bridge) as a state machine.             *)
(*                                                                         *)
(* Text is modelled as Python handles it: a str is a sequence of           *)
(* one-character strings, so that split, strip, replace, lower and the     *)
(* three regular expressions act on characters.  A dict is a function      *)
(* whose domain is its key set; a dict whose iteration order the code      *)
(* relies on (zip over dicts) is a sequence of [key, val] entries in       *)
(* insertion order.                                                        *)
(***************************************************************************)
EXTENDS Integers, Sequences, FiniteSets, TLC

(***************************************************************************)
(* Program constants                                                       *)
(***************************************************************************)
FAN_MANUAL_NAME == <<"m","a","n","u","a","l">>
FAN_TEMP_CONTROL_NAME == <<"t","e","m","p","_","c","o","n","t","r","o","l">>
FAN_PWM_CAP == 256

\* dict keys the code writes as literals
K_PATH == <<"p","a","t","h">>
K_PWM == <<"p","w","m">>
K_RPM == <<"r","p","m">>
K_CONTROL == <<"c","o","n","t","r","o","l">>
K_PROFILE == <<"p","r","o","f","i","l","e">>
K_SPEED == <<"s","p","e","e","d">>

(***************************************************************************)
(* Python str and dict primitives                                          *)
(***************************************************************************)
LowerCase == <<"a","b","c","d","e","f","g","h","i","j","k","l","m",
               "n","o","p","q","r","s","t","u","v","w","x","y","z">>
UpperCase == <<"A","B","C","D","E","F","G","H","I","J","K","L","M",
               "N","O","P","Q","R","S","T","U","V","W","X","Y","Z">>
Digits == {"0","1","2","3","4","5","6","7","8","9"}
WordChars == {LowerCase[i] : i \in 1..26} \cup {UpperCase[i] : i \in 1..26}
               \cup Digits \cup {"_"}
WhiteSpace == {" ", "\t", "\n"}

Range(s) == {s[i] : i \in 1..Len(s)}

Min(a, b) == IF a <= b THEN a ELSE b

\* c.lower() / c.upper() of one character
ToLower == [c \in {UpperCase[i] : i \in 1..26} |->
              LowerCase[CHOOSE i \in 1..26 : UpperCase[i] = c]]
ToUpper == [c \in {LowerCase[i] : i \in 1..26} |->
              UpperCase[CHOOSE i \in 1..26 : LowerCase[i] = c]]
lower_char(c) == IF c \in DOMAIN ToLower THEN ToLower[c] ELSE c
upper_char(c) == IF c \in DOMAIN ToUpper THEN ToUpper[c] ELSE c

str_lower(s) == [i \in 1..Len(s) |-> lower_char(s[i])]
str_upper(s) == [i \in 1..Len(s) |-> upper_char(s[i])]

\* s[i:].startswith(pat)
StartsWithAt(s, i, pat) ==
  /\ i >= 1
  /\ i + Len(pat) - 1 <= Len(s)
  /\ \A k \in 1..Len(pat) : s[i + k - 1] = pat[k]

\* s.replace(old, new) for a non-empty old: leftmost, non-overlapping; the
\* text not yet copied starts at from
RECURSIVE ReplaceFrom(_, _, _, _, _)
ReplaceFrom(s, i, from, old, new) ==
  IF i > Len(s) THEN SubSeq(s, from, Len(s))
  ELSE IF s[i] = old[1] /\ StartsWithAt(s, i, old)
       THEN SubSeq(s, from, i - 1) \o new
            \o ReplaceFrom(s, i + Len(old), i + Len(old), old, new)
       ELSE ReplaceFrom(s, i + 1, from, old, new)
str_replace(s, old, new) == ReplaceFrom(s, 1, 1, old, new)

\* s.split(sep) for a one-character sep; the current field starts at from
RECURSIVE SplitFrom(_, _, _, _)
SplitFrom(s, i, sep, from) ==
  IF i > Len(s) THEN <<SubSeq(s, from, Len(s))>>
  ELSE IF s[i] = sep
       THEN <<SubSeq(s, from, i - 1)>> \o SplitFrom(s, i + 1, sep, i + 1)
       ELSE SplitFrom(s, i + 1, sep, from)
str_split(s, sep) == SplitFrom(s, 1, sep, 1)

\* s.strip()
RECURSIVE str_lstrip(_)
str_lstrip(s) == IF s # <<>> /\ s[1] \in WhiteSpace THEN str_lstrip(Tail(s)) ELSE s
RECURSIVE str_rstrip(_)
str_rstrip(s) ==
  IF s # <<>> /\ s[Len(s)] \in WhiteSpace THEN str_rstrip(SubSeq(s, 1, Len(s) - 1)) ELSE s
str_strip(s) == str_rstrip(str_lstrip(s))

\* the index of the last character of the longest run of \w characters that
\* starts at i (i - 1 when s[i] is no \w character)
RECURSIVE WordRunEnd(_, _)
WordRunEnd(s, i) ==
  IF i <= Len(s) /\ s[i] \in WordChars THEN WordRunEnd(s, i + 1) ELSE i - 1

\* str(n) for a natural number
RECURSIVE NatToStr(_)
NatToStr(n) ==
  LET d == <<"0","1","2","3","4","5","6","7","8","9">>[(n % 10) + 1]
  IN IF n < 10 THEN <<d>> ELSE Append(NatToStr(n \div 10), d)

\* a.update(b) on dicts
dict_update(a, b) ==
  [k \in DOMAIN a \cup DOMAIN b |-> IF k \in DOMAIN b THEN b[k] ELSE a[k]]

\* d[k] = v on a dict
dict_set(d, k, v) == [x \in DOMAIN d \cup {k} |-> IF x = k THEN v ELSE d[x]]

EmptyDict == [k \in {} |-> 0]

\* an insertion-ordered dict: a sequence of entries [key, val]
od_keys(od) == [i \in 1..Len(od) |-> od[i].key]
od_has(od, k) == \E i \in 1..Len(od) : od[i].key = k
od_get(od, k) == od[CHOOSE i \in 1..Len(od) : od[i].key = k].val
od_set(od, k, v) ==
  IF od_has(od, k)
  THEN [i \in 1..Len(od) |-> IF od[i].key = k THEN [key |-> k, val |-> v] ELSE od[i]]
  ELSE Append(od, [key |-> k, val |-> v])

(***************************************************************************)
(* Value codec                                                             *)
(***************************************************************************)
\* int(x / d): Python's int() truncates toward zero
TruncDiv(x, d) == IF x >= 0 THEN x \div d ELSE -((-x) \div d)

\* a faulty variant of the conversion: the percent is taken as the raw value
ValueToPWM_unscaled(value) == value

ValueToPWM(value) == TruncDiv(value * FAN_PWM_CAP, 100)

\* a float as the exact fraction [num, den] in lowest terms
RECURSIVE Gcd(_, _)
Gcd(a, b) == IF b = 0 THEN a ELSE Gcd(b, a % b)
Fraction(n, d) ==
  LET g == Gcd(IF n < 0 THEN -n ELSE n, d)
  IN [num |-> n \div g, den |-> d \div g]

PWMtoValue(value) == Fraction(value * 100, FAN_PWM_CAP)

(***************************************************************************)
(* Daemon bridge: the regular expressions                                  *)
(***************************************************************************)
S_FAN_ == <<"F","A","N","_">>
S_FAN_DEFAULT_ == <<"F","A","N","_","D","E","F","A","U","L","T","_">>
S_FAN_OPEN == <<"<","F","A","N"," ">>
S_fan == <<"f","a","n">>

NoMatch == [ok |-> FALSE]

\* FAN_NVFAN_NAME_RE = ^<FAN (?P<num>\d+)>$
FAN_NVFAN_NAME_RE(s) ==
  LET n == Len(s)
  IN IF /\ StartsWithAt(s, 1, S_FAN_OPEN)
        /\ n >= 7
        /\ s[n] = ">"
        /\ \A i \in 6..(n - 1) : s[i] \in Digits
     THEN [ok |-> TRUE, num |-> SubSeq(s, 6, n - 1)]
     ELSE NoMatch

\* FAN_NVFAN_OPTIONS_RE = FAN_(?P<type>\w+) (?P<value>\w+) {$  tried at i.
\* Both groups are greedy and each is followed by a space, which is no \w
\* character, so each group is the whole run of \w characters.
OptionsMatchAt(s, i) ==
  LET t0 == i + 4
      t1 == WordRunEnd(s, t0)
      v0 == t1 + 2
      v1 == WordRunEnd(s, v0)
  IN /\ StartsWithAt(s, i, S_FAN_)
     /\ t1 >= t0
     /\ t1 + 1 <= Len(s) /\ s[t1 + 1] = " "
     /\ v1 >= v0
     /\ v1 + 2 = Len(s) /\ s[v1 + 1] = " " /\ s[v1 + 2] = "{"

FAN_NVFAN_OPTIONS_RE(s) ==
  LET hits == {i \in 1..Len(s) : s[i] = "F" /\ OptionsMatchAt(s, i)}
  IN IF hits = {} THEN NoMatch
     ELSE LET i == CHOOSE x \in hits : \A y \in hits : x <= y
              t1 == WordRunEnd(s, i + 4)
          IN [ok |-> TRUE,
              type |-> SubSeq(s, i + 4, t1),
              value |-> SubSeq(s, t1 + 2, WordRunEnd(s, t1 + 2))]

\* FAN_NVFAN_DEFAULT_RE = FAN_DEFAULT_(?P<type>\w+) (?P<value>\w+)  tried at i
DefaultMatchAt(s, i) ==
  LET t0 == i + 12
      t1 == WordRunEnd(s, t0)
      v0 == t1 + 2
  IN /\ StartsWithAt(s, i, S_FAN_DEFAULT_)
     /\ t1 >= t0
     /\ t1 + 1 <= Len(s) /\ s[t1 + 1] = " "
     /\ WordRunEnd(s, v0) >= v0

FAN_NVFAN_DEFAULT_RE(s) ==
  LET hits == {i \in 1..Len(s) : s[i] = "F" /\ DefaultMatchAt(s, i)}
  IN IF hits = {} THEN NoMatch
     ELSE LET i == CHOOSE x \in hits : \A y \in hits : x <= y
              t1 == WordRunEnd(s, i + 12)
          IN [ok |-> TRUE,
              type |-> SubSeq(s, i + 12, t1),
              value |-> SubSeq(s, t1 + 2, WordRunEnd(s, t1 + 2))]

(***************************************************************************)
(* Daemon bridge: /etc/nvfancontrol.conf and `nvfancontrol -q`             *)
(***************************************************************************)
\* decode_nvfancontrol over the lines of the file: the ordered dict
\* fan{num} -> {type: [values]}.  An option line before the first block
\* indexes nvfan[''] and raises KeyError.
RECURSIVE DecodeLines(_, _, _, _)
DecodeLines(lines, i, nvfan, current_fan) ==
  IF i > Len(lines) THEN [ret |-> "ok", value |-> nvfan]
  ELSE
    LET line == str_strip(lines[i])
        match_name == FAN_NVFAN_NAME_RE(line)
        match_values == FAN_NVFAN_OPTIONS_RE(line)
    IN IF match_name.ok
       THEN LET fan == S_fan \o match_name.num
            IN DecodeLines(lines, i + 1, od_set(nvfan, fan, EmptyDict), fan)
       ELSE IF match_values.ok
       THEN IF ~od_has(nvfan, current_fan)
            THEN [ret |-> "KeyError", value |-> nvfan]
            ELSE LET type_name == str_lower(match_values.type)
                     old == od_get(nvfan, current_fan)
                     lst == IF type_name \in DOMAIN old THEN old[type_name] ELSE <<>>
                     new == dict_set(old, type_name, Append(lst, match_values.value))
                 IN DecodeLines(lines, i + 1, od_set(nvfan, current_fan, new), current_fan)
       ELSE DecodeLines(lines, i + 1, nvfan, current_fan)

decode_nvfancontrol(conf) ==
  IF conf.exists THEN DecodeLines(conf.lines, 1, <<>>, <<>>)
  ELSE [ret |-> "ok", value |-> <<>>]

\* change_nvfancontrol_default: the file's lines after the rewrite
change_nvfancontrol_default(lines, name, value) ==
  [i \in 1..Len(lines) |->
     LET match_defaults == FAN_NVFAN_DEFAULT_RE(str_strip(lines[i]))
     IN IF match_defaults.ok /\ str_upper(name) = match_defaults.type
        THEN str_replace(lines[i], match_defaults.value, value)
        ELSE lines[i]]

\* the loop of nvfancontrol_query over the command's output lines: the
\* ordered dict fan_name -> {query: value}.  A line with fewer than three
\* fields raises IndexError, which the handler does not catch.
RECURSIVE QueryLines(_, _, _)
QueryLines(lines, i, status) ==
  IF i > Len(lines) THEN [ret |-> "ok", value |-> status]
  ELSE
    LET values == str_split(lines[i], ":")
    IN IF Len(values) < 3 THEN [ret |-> "IndexError", value |-> status]
       ELSE LET fan_name == str_lower(values[1])
                query == str_lower(str_replace(values[2], S_FAN_, <<>>))
                old == IF od_has(status, fan_name) THEN od_get(status, fan_name)
                       ELSE EmptyDict
            IN QueryLines(lines, i + 1,
                          od_set(status, fan_name, dict_set(old, query, values[3])))

\* nvfancontrol_query: out.ok is FALSE when the command fails (OSError or
\* CommandException: missing binary, timeout, non-zero exit)
nvfancontrol_query(out) ==
  IF out.ok THEN QueryLines(out.lines, 1, <<>>)
  ELSE [ret |-> "ok", value |-> <<>>]

(***************************************************************************)
(* The machine FanService runs on.  A world w is the record of everything  *)
(* the service reads and writes:                                           *)
(*   nvfancontrol  self._nvfancontrol                                      *)
(*   fan_list      self._fan_list, ordered dict name -> dict               *)
(*   config        the 'fan' entry of the persisted configuration          *)
(*   nodes         sysfs: path -> the integer the kernel holds             *)
(*   writable      the paths os.access(path, W_OK) accepts                 *)
(*   nvconf        /etc/nvfancontrol.conf                                  *)
(*   status_file   /var/lib/nvfancontrol/status                            *)
(*   nv_active     nvfancontrol.service is running                         *)
(*   nv_live       the profile the running daemon applies to each fan      *)
(*   nvquery_ok    `nvfancontrol -q` runs (FALSE: it fails or times out)   *)
(*   log           the external side effects of the call in progress       *)
(***************************************************************************)
os_path_join(a, b) == a \o <<"/">> \o b

\* str(n) written to a node, and int(cat(path)) / float(cat(path)) read back:
\* the kernel prints the number and a newline
RECURSIVE StrToNat(_)
StrToNat(s) ==
  IF s = <<>> THEN 0
  ELSE 10 * StrToNat(SubSeq(s, 1, Len(s) - 1))
       + (CHOOSE d \in 0..9 : NatToStr(d) = <<s[Len(s)]>>)
cat(w, path) == NatToStr(w.nodes[path]) \o <<"\n">>
to_number(s) == StrToNat(str_strip(s))
write_node(w, path, text) == [w EXCEPT !.nodes[path] = StrToNat(text)]

S_ACTIVE == <<"A","c","t","i","v","e",":"," ","a","c","t","i","v","e"," ",
              "(","r","u","n","n","i","n","g",")">>
S_INACTIVE == <<"A","c","t","i","v","e",":"," ","i","n","a","c","t","i","v","e"," ",
                "(","d","e","a","d",")">>
S_FAN_PROFILE_FIELD == <<":","F","A","N","_","P","R","O","F","I","L","E",":">>
S_FAN_GOVERNOR_LINE == <<":","F","A","N","_","G","O","V","E","R","N","O","R",":",
                         "c","o","n","t">>
S_FAN == <<"F","A","N">>

\* `systemctl status nvfancontrol.service`
systemctl_status(w) == IF w.nv_active THEN S_ACTIVE ELSE S_INACTIVE

\* `nvfancontrol -q`: two lines for each fan the daemon drives
RECURSIVE QueryOutputLines(_, _)
QueryOutputLines(live, i) ==
  IF i > Len(live) THEN <<>>
  ELSE << S_FAN \o live[i].num \o S_FAN_PROFILE_FIELD \o live[i].profile,
          S_FAN \o live[i].num \o S_FAN_GOVERNOR_LINE >>
       \o QueryOutputLines(live, i + 1)
QueryOutput(w) == [ok |-> w.nvquery_ok, lines |-> QueryOutputLines(w.nv_live, 1)]

\* the daemon reading its configuration: for each <FAN n> block, in file
\* order, its number and its FAN_DEFAULT_PROFILE
RECURSIVE DaemonBlocks(_, _, _)
DaemonBlocks(lines, i, blocks) ==
  IF i > Len(lines) THEN blocks
  ELSE
    LET line == str_strip(lines[i])
        head == FAN_NVFAN_NAME_RE(line)
        dflt == FAN_NVFAN_DEFAULT_RE(line)
    IN IF head.ok
       THEN DaemonBlocks(lines, i + 1,
                         Append(blocks, [num |-> head.num, profile |-> <<>>]))
       ELSE IF dflt.ok /\ dflt.type = str_upper(K_PROFILE) /\ blocks # <<>>
       THEN DaemonBlocks(lines, i + 1,
                         [blocks EXCEPT ![Len(blocks)].profile = dflt.value])
       ELSE DaemonBlocks(lines, i + 1, blocks)

\* the daemon starting: it resumes the profiles of its cached status file
\* when the file is there, and takes the configured defaults otherwise
DaemonBoot(w) ==
  LET blocks == DaemonBlocks(w.nvconf.lines, 1, <<>>)
  IN [i \in 1..Len(blocks) |->
        IF w.status_file.exists /\ i <= Len(w.status_file.profiles)
        THEN [num |-> blocks[i].num, profile |-> w.status_file.profiles[i]]
        ELSE blocks[i]]

NoStatusFile == [exists |-> FALSE, profiles |-> <<>>]

\* os.system('systemctl stop nvfancontrol')
systemctl_stop(w) ==
  [w EXCEPT !.nv_active = FALSE, !.nv_live = <<>>, !.log = Append(@, "stop")]

\* os.system('systemctl start nvfancontrol')
systemctl_start(w) ==
  [w EXCEPT !.nv_active = TRUE, !.nv_live = DaemonBoot(w), !.log = Append(@, "start")]

\* os.remove("/var/lib/nvfancontrol/status")
remove_status_file(w) ==
  [w EXCEPT !.status_file = NoStatusFile, !.log = Append(@, "rm_status")]

\* the rewrite of /etc/nvfancontrol.conf by change_nvfancontrol_default
rewrite_nvconf(w, name, value) ==
  [w EXCEPT !.nvconf.lines = change_nvfancontrol_default(@, name, value),
            !.log = Append(@, "conf")]

\* nvfancontrol_is_active: the literal is searched in the command's output
nvfancontrol_is_active(w) ==
  LET output == systemctl_status(w)
  IN \E i \in 1..Len(output) : StartsWithAt(output, i, S_ACTIVE)

(***************************************************************************)
(* FanService                                                              *)
(***************************************************************************)
\* FanService.__init__ after discovery: the registry with its profile lists
InitFanList(nvfancontrol, discovered, files, conf) ==
  IF nvfancontrol
  THEN LET nv_fan_modes == decode_nvfancontrol(conf).value
       IN [i \in 1..Len(discovered) |->
             IF i <= Len(nv_fan_modes)
             THEN LET merged == dict_update(discovered[i].val, nv_fan_modes[i].val)
                  IN [key |-> discovered[i].key,
                      val |-> IF K_PROFILE \in DOMAIN merged
                              THEN dict_set(merged, K_PROFILE,
                                            Append(merged[K_PROFILE], FAN_MANUAL_NAME))
                              ELSE merged]
             ELSE discovered[i]]
  ELSE [i \in 1..Len(discovered) |->
          LET fan == discovered[i].val
              control == os_path_join(fan[K_PATH], FAN_TEMP_CONTROL_NAME)
          IN [key |-> discovered[i].key,
              val |-> IF control \in files
                      THEN dict_set(dict_set(fan, K_CONTROL, control), K_PROFILE,
                                    <<FAN_TEMP_CONTROL_NAME, FAN_MANUAL_NAME>>)
                      ELSE dict_set(fan, K_PROFILE, <<FAN_MANUAL_NAME>>)]]

\* FanService.get_configs
Result(ret, value) == [ret |-> ret, value |-> value]

get_configs(w) ==
  IF \E i \in 1..Len(w.fan_list) : K_PROFILE \notin DOMAIN w.fan_list[i].val
  THEN Result("KeyError", <<>>)
  ELSE Result("ok", [i \in 1..Len(w.fan_list) |->
                      [key |-> w.fan_list[i].key, val |-> w.fan_list[i].val[K_PROFILE]]])

\* the pairs of zip(a, b) over two ordered dicts: positions 1..min(len)
ZipLen(a, b) == Min(Len(a), Len(b))

\* FanService.get_profile
get_profile(w, name) ==
  IF ~od_has(w.fan_list, name) THEN Result("unknown_fan", <<>>)
  ELSE IF w.nvfancontrol
  THEN IF nvfancontrol_is_active(w)
       THEN LET nvfan_query == nvfancontrol_query(QueryOutput(w))
                hits == {i \in 1..ZipLen(w.fan_list, nvfan_query.value) :
                           w.fan_list[i].key = name}
            IN IF nvfan_query.ret # "ok" THEN Result(nvfan_query.ret, <<>>)
               ELSE IF hits = {} THEN Result("ok", FAN_MANUAL_NAME)
               ELSE LET nvfan == nvfan_query.value[CHOOSE i \in hits : TRUE].val
                    IN IF K_PROFILE \in DOMAIN nvfan
                       THEN Result("ok", nvfan[K_PROFILE])
                       ELSE Result("KeyError", <<>>)
       ELSE Result("ok", FAN_MANUAL_NAME)
  ELSE LET fan == od_get(w.fan_list, name)
       IN IF K_CONTROL \in DOMAIN fan
          THEN LET control_value == to_number(cat(w, fan[K_CONTROL])) = 1
               IN Result("ok", IF control_value THEN FAN_TEMP_CONTROL_NAME
                                                ELSE FAN_MANUAL_NAME)
          ELSE Result("ok", FAN_MANUAL_NAME)

\* the update of the persisted configuration that ends set_profile
persist_profile(w, name, profile) ==
  LET fan_config == w.config
      entry == IF od_has(fan_config, name) THEN od_get(fan_config, name) ELSE EmptyDict
  IN [w EXCEPT !.config = od_set(fan_config, name, dict_set(entry, K_PROFILE, profile)),
               !.log = Append(@, "config")]

\* a faulty variant of the daemon-managed branch: the daemon is started
\* before its configuration is rewritten and its status file removed
set_profile_nvfancontrol_start_first(w, profile) ==
  LET is_active == nvfancontrol_is_active(w)
      stopped == IF is_active THEN systemctl_stop(w) ELSE w
  IN IF profile = FAN_MANUAL_NAME THEN stopped
     ELSE LET started == systemctl_start(stopped)
              changed == rewrite_nvconf(started, K_PROFILE, profile)
          IN IF changed.status_file.exists THEN remove_status_file(changed)
             ELSE changed

\* a faulty variant of the daemon-managed branch: a change to "manual"
\* leaves the daemon running
set_profile_nvfancontrol_no_stop(w, profile) ==
  IF profile = FAN_MANUAL_NAME THEN w
  ELSE LET is_active == nvfancontrol_is_active(w)
           stopped == IF is_active THEN systemctl_stop(w) ELSE w
           changed == rewrite_nvconf(stopped, K_PROFILE, profile)
           purged == IF changed.status_file.exists THEN remove_status_file(changed)
                     ELSE changed
       IN systemctl_start(purged)

\* the daemon-managed branch of set_profile, for a profile of the fan's list
set_profile_nvfancontrol(w, profile) ==
  LET is_active == nvfancontrol_is_active(w)
      stopped == IF is_active THEN systemctl_stop(w) ELSE w
  IN IF profile = FAN_MANUAL_NAME THEN stopped
     ELSE LET changed == rewrite_nvconf(stopped, K_PROFILE, profile)
              purged == IF changed.status_file.exists THEN remove_status_file(changed)
                        ELSE changed
          IN systemctl_start(purged)

\* the locally managed branch of set_profile, for a profile of the fan's list
set_profile_local(w, name, profile) ==
  LET control_value == IF FAN_MANUAL_NAME # <<>> THEN <<"0">> ELSE <<"1">>
      fan == od_get(w.fan_list, name)
  IN IF K_CONTROL \in DOMAIN fan /\ fan[K_CONTROL] \in w.writable
     THEN [write_node(w, fan[K_CONTROL], control_value) EXCEPT !.log = Append(@, "control")]
     ELSE w

\* set_profile once the name is known to be registered
set_profile_registered(w, name, profile) ==
  LET current == get_profile(w, name)
      fan == od_get(w.fan_list, name)
  IN IF current.ret # "ok" THEN [w |-> w, ret |-> current.ret]
     ELSE IF profile = current.value THEN [w |-> w, ret |-> "already_active"]
     ELSE IF K_PROFILE \notin DOMAIN fan THEN [w |-> w, ret |-> "KeyError"]
     ELSE IF profile \notin Range(fan[K_PROFILE])
     THEN [w |-> w, ret |-> "unknown_profile"]
     ELSE [w |-> persist_profile(IF w.nvfancontrol
                                 THEN set_profile_nvfancontrol(w, profile)
                                 ELSE set_profile_local(w, name, profile),
                                 name, profile),
           ret |-> "ok"]

\* a faulty variant of set_profile: the persisted configuration is updated
\* before the name is looked up
set_profile_persist_first(w, name, profile) ==
  IF ~od_has(w.fan_list, name)
  THEN [w |-> persist_profile(w, name, profile), ret |-> "unknown_fan"]
  ELSE set_profile_registered(w, name, profile)

\* FanService.set_profile: the world after the call and what it returned
set_profile(w, name, profile) ==
  IF ~od_has(w.fan_list, name) THEN [w |-> w, ret |-> "unknown_fan"]
  ELSE set_profile_registered(w, name, profile)

\* a faulty variant of the persisted update: the fan is dropped from the
\* registry
persist_speed_forgets_fan(w, name, speed, index) ==
  LET fan_config == w.config
      entry == IF od_has(fan_config, name) THEN od_get(fan_config, name) ELSE EmptyDict
  IN [w EXCEPT !.config = od_set(fan_config, name,
                                 dict_set(entry, K_SPEED, <<speed, index>>)),
               !.fan_list = SelectSeq(@, LAMBDA fan : fan.key # name),
               !.log = Append(@, "config")]

\* a faulty variant of the persisted update: the speed is added to the one
\* persisted before
persist_speed_accumulates(w, name, speed, index) ==
  LET fan_config == w.config
      entry == IF od_has(fan_config, name) THEN od_get(fan_config, name) ELSE EmptyDict
      before == IF K_SPEED \in DOMAIN entry THEN entry[K_SPEED][1] ELSE 0
  IN [w EXCEPT !.config = od_set(fan_config, name,
                                 dict_set(entry, K_SPEED, <<before + speed, index>>)),
               !.log = Append(@, "config")]

\* a faulty variant of the update: the fan's entry is replaced by one that
\* holds the speed pair alone
persist_speed_drops_profile(w, name, speed, index) ==
  [w EXCEPT !.config = od_set(w.config, name, dict_set(EmptyDict, K_SPEED, <<speed, index>>)),
            !.log = Append(@, "config")]

\* fan_config[name]['speed'] = (speed, index)
persist_speed(w, name, speed, index) ==
  LET fan_config == w.config
      entry == IF od_has(fan_config, name) THEN od_get(fan_config, name) ELSE EmptyDict
  IN [w EXCEPT !.config = od_set(fan_config, name,
                                 dict_set(entry, K_SPEED, <<speed, index>>)),
               !.log = Append(@, "config")]

\* a faulty variant of the clamp: the upper bound is not enforced
clamp_speed_no_upper(speed) == IF speed < 0 THEN 0 ELSE speed

\* the clamp of set_speed
clamp_speed(speed) == IF speed > 100 THEN 100 ELSE IF speed < 0 THEN 0 ELSE speed

\* FanService.set_speed.  A negative index passes the range check; Python
\* then counts it from the end of the list, or raises IndexError when it is
\* below -len, after the configuration has been updated.
set_speed(w, name, speed, index) ==
  IF ~od_has(w.fan_list, name) THEN [w |-> w, ret |-> "unknown_fan"]
  ELSE
    LET pwms == od_get(w.fan_list, name)[K_PWM]
        clamped == clamp_speed(speed)
        saved == persist_speed(w, name, clamped, index)
        pwm == NatToStr(ValueToPWM(clamped))
        pos == IF index >= 0 THEN index + 1 ELSE Len(pwms) + index + 1
    IN IF index >= Len(pwms) THEN [w |-> w, ret |-> "bad_index"]
       ELSE IF pos < 1 THEN [w |-> saved, ret |-> "IndexError"]
       ELSE IF pwms[pos] \in w.writable
       THEN [w |-> [write_node(saved, pwms[pos], pwm) EXCEPT !.log = Append(@, "pwm")],
             ret |-> "ok"]
       ELSE [w |-> saved, ret |-> "ok"]

\* the outcomes that are exceptions: they end the caller as well
Raised == {"KeyError", "IndexError"}

\* FanService.initialization: the persisted configuration replayed, fan by
\* fan in the order of the configuration.  The calls rewrite the entries
\* they replay with the values these already hold.
\* (each call is bound with \in {...}, so that its result is computed once)
RECURSIVE InitializationFans(_, _, _)
InitializationFans(w, fan_config, i) ==
  IF i > Len(fan_config) THEN [w |-> w, ret |-> "ok"]
  ELSE
    LET name == fan_config[i].key
        fan == fan_config[i].val
    IN IF K_PROFILE \notin DOMAIN fan THEN InitializationFans(w, fan_config, i + 1)
       ELSE
         LET profile == fan[K_PROFILE]
         IN CHOOSE done \in
              { IF profiled.ret \in Raised THEN profiled
                ELSE IF profile = FAN_MANUAL_NAME /\ K_SPEED \in DOMAIN fan
                THEN CHOOSE after \in
                       { IF sped.ret \in Raised THEN sped
                         ELSE InitializationFans(sped.w, fan_config, i + 1) :
                         sped \in {set_speed(profiled.w, name,
                                             fan[K_SPEED][1], fan[K_SPEED][2])} } : TRUE
                ELSE InitializationFans(profiled.w, fan_config, i + 1) :
                profiled \in {set_profile(w, name, profile)} } : TRUE

\* a faulty variant of initialization: the speed pair is replayed whatever
\* the persisted profile is
RECURSIVE InitializationAnyProfile(_, _, _)
InitializationAnyProfile(w, fan_config, i) ==
  IF i > Len(fan_config) THEN [w |-> w, ret |-> "ok"]
  ELSE
    LET name == fan_config[i].key
        fan == fan_config[i].val
    IN IF K_PROFILE \notin DOMAIN fan THEN InitializationAnyProfile(w, fan_config, i + 1)
       ELSE CHOOSE done \in
              { IF profiled.ret \in Raised THEN profiled
                ELSE IF K_SPEED \in DOMAIN fan
                THEN CHOOSE after \in
                       { IF sped.ret \in Raised THEN sped
                         ELSE InitializationAnyProfile(sped.w, fan_config, i + 1) :
                         sped \in {set_speed(profiled.w, name,
                                             fan[K_SPEED][1], fan[K_SPEED][2])} } : TRUE
                ELSE InitializationAnyProfile(profiled.w, fan_config, i + 1) :
                profiled \in {set_profile(w, name, fan[K_PROFILE])} } : TRUE
initialization_any_profile(w) == InitializationAnyProfile(w, w.config, 1)

initialization(w) == InitializationFans(w, w.config, 1)

\* a faulty variant of the first loop of get_status: the speeds are listed
\* from the last PWM path to the first
read_fan_reversed(w, data) ==
  LET n == Len(data[K_PWM])
      speed == [i \in 1..n |-> PWMtoValue(to_number(cat(w, data[K_PWM][n + 1 - i])))]
  IN dict_set(EmptyDict, K_SPEED, speed)

\* the first loop of get_status: speed (and rpm) of every fan
read_fan(w, data) ==
  LET speed == [i \in 1..Len(data[K_PWM]) |->
                  PWMtoValue(to_number(cat(w, data[K_PWM][i])))]
      base == dict_set(EmptyDict, K_SPEED, speed)
  IN IF K_RPM \in DOMAIN data
     THEN dict_set(base, K_RPM,
                   [i \in 1..Len(data[K_RPM]) |-> to_number(cat(w, data[K_RPM][i]))])
     ELSE base

\* FanService.get_status
get_status(w) ==
  LET fan_status == [i \in 1..Len(w.fan_list) |->
                       [key |-> w.fan_list[i].key, val |-> read_fan(w, w.fan_list[i].val)]]
  IN IF w.nvfancontrol
     THEN IF nvfancontrol_is_active(w)
          THEN LET nvfan_query == nvfancontrol_query(QueryOutput(w))
               IN IF nvfan_query.ret # "ok" THEN Result(nvfan_query.ret, <<>>)
                  ELSE Result("ok",
                         [i \in 1..Len(fan_status) |->
                            IF i <= Len(nvfan_query.value)
                            THEN [key |-> fan_status[i].key,
                                  val |-> dict_update(fan_status[i].val,
                                                      nvfan_query.value[i].val)]
                            ELSE fan_status[i]])
          ELSE Result("ok",
                 [i \in 1..Len(fan_status) |->
                    [key |-> fan_status[i].key,
                     val |-> dict_set(fan_status[i].val, K_PROFILE, FAN_MANUAL_NAME)]])
     ELSE Result("ok",
            [i \in 1..Len(fan_status) |->
               LET data == w.fan_list[i].val
               IN [key |-> fan_status[i].key,
                   val |-> dict_set(fan_status[i].val, K_PROFILE,
                             IF K_CONTROL \in DOMAIN data
                                /\ to_number(cat(w, data[K_CONTROL])) = 1
                             THEN FAN_TEMP_CONTROL_NAME ELSE FAN_MANUAL_NAME)]])

(***************************************************************************)
(* The boards the model runs on and the inputs of the calls                *)
(***************************************************************************)
N_pwmfan == <<"p","w","m","f","a","n">>
N_fan1 == <<"f","a","n","1">>
N_fan2 == <<"f","a","n","2">>
N_nofan == <<"n","o","f","a","n">>
P_quiet == <<"q","u","i","e","t">>
P_cool == <<"c","o","o","l">>
D_hwmon0 == <<"/","h","w","m","o","n","0">>
D_hwmon1 == <<"/","h","w","m","o","n","1">>
F_pwm1 == <<"p","w","m","1">>
F_pwm2 == <<"p","w","m","2">>
F_target_pwm == <<"t","a","r","g","e","t","_","p","w","m">>
F_rpm_measured == <<"r","p","m","_","m","e","a","s","u","r","e","d">>

\* /etc/nvfancontrol.conf with two fan blocks, and with one
ConfTwoFans ==
  << <<"<","F","A","N"," ","1",">","\n">>,
     <<"\t","F","A","N","_","P","R","O","F","I","L","E"," ","q","u","i","e","t"," ","{","\n">>,
     <<"\t","F","A","N","_","P","R","O","F","I","L","E"," ","c","o","o","l"," ","{","\n">>,
     <<"\t","F","A","N","_","D","E","F","A","U","L","T","_","G","O","V","E","R","N","O","R"," ","c","o","n","t","\n">>,
     <<"\t","F","A","N","_","D","E","F","A","U","L","T","_","P","R","O","F","I","L","E"," ","q","u","i","e","t","\n">>,
     <<"<","F","A","N"," ","2",">","\n">>,
     <<"\t","F","A","N","_","P","R","O","F","I","L","E"," ","q","u","i","e","t"," ","{","\n">>,
     <<"\t","F","A","N","_","P","R","O","F","I","L","E"," ","c","o","o","l"," ","{","\n">>,
     <<"\t","F","A","N","_","D","E","F","A","U","L","T","_","P","R","O","F","I","L","E"," ","c","o","o","l","\n">> >>
ConfOneFan == SubSeq(ConfTwoFans, 1, 5)

Entry(k, v) == [key |-> k, val |-> v]
FanDir(path, pwm) ==
  dict_set(dict_set(EmptyDict, K_PATH, path), K_PWM,
           [i \in 1..Len(pwm) |-> os_path_join(path, pwm[i])])

\* a locally managed board: a two-channel fan with a tachometer and a
\* temp_control toggle, and a one-channel fan without
BoardLocal ==
  [nvfancontrol |-> FALSE,
   discovered |-> << Entry(N_pwmfan,
                           dict_set(FanDir(D_hwmon0, <<F_pwm1, F_pwm2>>), K_RPM,
                                    <<os_path_join(D_hwmon0, F_rpm_measured)>>)),
                     Entry(N_fan2, FanDir(D_hwmon1, <<F_target_pwm>>)) >>,
   nodes |-> (os_path_join(D_hwmon0, F_pwm1) :> 128)
             @@ (os_path_join(D_hwmon0, F_pwm2) :> 64)
             @@ (os_path_join(D_hwmon0, F_rpm_measured) :> 3000)
             @@ (os_path_join(D_hwmon0, FAN_TEMP_CONTROL_NAME) :> 0)
             @@ (os_path_join(D_hwmon1, F_target_pwm) :> 0),
   conf |-> [exists |-> FALSE, lines |-> <<>>]]

\* a daemon-managed board whose hwmon order is the reverse of the daemon's
BoardDaemonSwapped ==
  [nvfancontrol |-> TRUE,
   discovered |-> << Entry(N_fan2, FanDir(D_hwmon0, <<F_pwm1>>)),
                     Entry(N_fan1, FanDir(D_hwmon1, <<F_pwm1>>)) >>,
   nodes |-> (os_path_join(D_hwmon0, F_pwm1) :> 128)
             @@ (os_path_join(D_hwmon1, F_pwm1) :> 0),
   conf |-> [exists |-> TRUE, lines |-> ConfTwoFans]]

\* a daemon-managed board with more fans than the daemon has blocks
BoardDaemonOneBlock ==
  [nvfancontrol |-> TRUE,
   discovered |-> << Entry(N_pwmfan, FanDir(D_hwmon0, <<F_pwm1>>)),
                     Entry(N_fan2, FanDir(D_hwmon1, <<F_pwm1>>)) >>,
   nodes |-> (os_path_join(D_hwmon0, F_pwm1) :> 128)
             @@ (os_path_join(D_hwmon1, F_pwm1) :> 0),
   conf |-> [exists |-> TRUE, lines |-> ConfOneFan]]

Boards == {BoardLocal, BoardDaemonSwapped, BoardDaemonOneBlock}

\* the paths the service may not write: none, or (on the locally managed
\* board) the first channel of the first fan and its toggle
ReadOnlyChoices(board) ==
  LET first == board.discovered[1].val
  IN IF board.nvfancontrol THEN { {} }
     ELSE { {}, {first[K_PWM][1], os_path_join(first[K_PATH], FAN_TEMP_CONTROL_NAME)} }

\* the number of calls made on the service in one run
MaxCalls == 2
ProfileInputs == {FAN_MANUAL_NAME, FAN_TEMP_CONTROL_NAME, P_quiet, P_cool}
\* the (speed, index) pairs passed to set_speed: speeds below, inside and
\* above [0,100] on channel 0, and every kind of index: the last valid one
\* of a two-channel fan, one past it, and negative ones
SpeedInputs == { <<-10, 0>>, <<30, 0>>, <<150, 0>>, <<30, 1>>, <<30, 2>>,
                 <<150, -1>>, <<30, -2>> }

(***************************************************************************)
(* State                                                                   *)
(***************************************************************************)
VARIABLES nvfancontrol, fan_list, config, nodes, writable, nvconf, status_file,
          nv_active, nv_live, nvquery_ok, last, calls

world == <<nvfancontrol, fan_list, config, nodes, writable, nvconf, status_file,
           nv_active, nv_live, nvquery_ok>>

\* what the parts outside the service hold; the service never touches them:
\*   hwmon        the directory tree discovery walks (/sys/class/hwmon)
\*   client_data  Fan._data, the status snapshot the client holds
\*   client_init  Fan._init, the profile lists the client holds
\*   controller   the commands the client has put on its channel
VARIABLES hwmon, client_data, client_init, controller

aux == <<hwmon, client_data, client_init, controller>>
vars == <<world, last, calls, aux>>

\* the state as the record the operations take
World ==
  [nvfancontrol |-> nvfancontrol, fan_list |-> fan_list, config |-> config,
   nodes |-> nodes, writable |-> writable, nvconf |-> nvconf,
   status_file |-> status_file, nv_active |-> nv_active, nv_live |-> nv_live,
   nvquery_ok |-> nvquery_ok, log |-> <<>>]

\* the state becomes w
Becomes(w) ==
  /\ nvfancontrol' = w.nvfancontrol
  /\ fan_list' = w.fan_list
  /\ config' = w.config
  /\ nodes' = w.nodes
  /\ writable' = w.writable
  /\ nvconf' = w.nvconf
  /\ status_file' = w.status_file
  /\ nv_active' = w.nv_active
  /\ nv_live' = w.nv_live
  /\ nvquery_ok' = w.nvquery_ok

\* the record of the last call: what was asked, what came back, and the
\* external side effects in the order they happened
Call(op, name, profile, speed, index, ret, value, log) ==
  [op |-> op, name |-> name, profile |-> profile, speed |-> speed, index |-> index,
   ret |-> ret, value |-> value, log |-> log]
\* the names a caller may pass: the registered ones and one that is not
NameInputs == Range(od_keys(fan_list)) \cup {N_nofan}

NoCall == Call("none", <<>>, <<>>, 0, 0, "", <<>>, <<>>)
EnvStep == Call("env", <<>>, <<>>, 0, 0, "", <<>>, <<>>)

\* no tree is walked and no client is attached
NoAux ==
  /\ hwmon = <<>>
  /\ client_data = <<>>
  /\ client_init = <<>>
  /\ controller = <<>>

\* the service constructed on one of the boards, with fan_config as the
\* 'fan' entry of the persisted configuration
StartedWith(fan_config) ==
  \E board \in Boards :
    \E readonly \in ReadOnlyChoices(board), active \in BOOLEAN, toggle \in {0, 1} :
      LET control == os_path_join(D_hwmon0, FAN_TEMP_CONTROL_NAME)
          booted == [nvconf |-> board.conf, status_file |-> NoStatusFile]
      IN /\ board.nvfancontrol \/ ~active
         /\ control \in DOMAIN board.nodes \/ toggle = 0
         /\ nvfancontrol = board.nvfancontrol
         /\ fan_list = InitFanList(board.nvfancontrol, board.discovered,
                                   DOMAIN board.nodes, board.conf)
         /\ config = fan_config
         /\ nodes = IF control \in DOMAIN board.nodes
                    THEN [board.nodes EXCEPT ![control] = toggle]
                    ELSE board.nodes
         /\ writable = DOMAIN board.nodes \ readonly
         /\ nvconf = board.conf
         /\ status_file = NoStatusFile
         /\ nv_active = active
         /\ nv_live = IF active THEN DaemonBoot(booted) ELSE <<>>
         /\ nvquery_ok = TRUE
         /\ last = NoCall
         /\ calls = 0
         /\ NoAux

\* nothing is persisted yet
Init == StartedWith(<<>>)

(***************************************************************************)
(* Operations                                                              *)
(***************************************************************************)
SetProfile(name, profile) ==
  /\ calls < MaxCalls
  /\ LET r == set_profile(World, name, profile)
     IN /\ Becomes(r.w)
        /\ last' = Call("set_profile", name, profile, 0, 0, r.ret, <<>>, r.w.log)
  /\ calls' = calls + 1
  /\ UNCHANGED aux

SetSpeed(name, speed, index) ==
  /\ calls < MaxCalls
  /\ LET r == set_speed(World, name, speed, index)
     IN /\ Becomes(r.w)
        /\ last' = Call("set_speed", name, <<>>, speed, index, r.ret, <<>>, r.w.log)
  /\ calls' = calls + 1
  /\ UNCHANGED aux

GetProfile(name) ==
  /\ calls < MaxCalls
  /\ LET r == get_profile(World, name)
     IN last' = Call("get_profile", name, <<>>, 0, 0, r.ret, r.value, <<>>)
  /\ calls' = calls + 1
  /\ UNCHANGED <<world, aux>>

GetStatus ==
  /\ calls < MaxCalls
  /\ LET r == get_status(World)
     IN last' = Call("get_status", <<>>, <<>>, 0, 0, r.ret, r.value, <<>>)
  /\ calls' = calls + 1
  /\ UNCHANGED <<world, aux>>

GetConfigs ==
  /\ calls < MaxCalls
  /\ LET r == get_configs(World)
     IN last' = Call("get_configs", <<>>, <<>>, 0, 0, r.ret, r.value, <<>>)
  /\ calls' = calls + 1
  /\ UNCHANGED <<world, aux>>

Initialization ==
  /\ calls < MaxCalls
  /\ \E r \in {initialization(World)} :
        /\ Becomes(r.w)
        /\ last' = Call("initialization", <<>>, <<>>, 0, 0, r.ret, <<>>, r.w.log)
  /\ calls' = calls + 1
  /\ UNCHANGED aux

\* the running daemon saves the profiles it applies to its status file
DaemonSaveStatus ==
  /\ calls < MaxCalls
  /\ nvfancontrol /\ nv_active
  /\ status_file' = [exists |-> TRUE,
                     profiles |-> [i \in 1..Len(nv_live) |-> nv_live[i].profile]]
  /\ last' = EnvStep
  /\ UNCHANGED <<nvfancontrol, fan_list, config, nodes, writable, nvconf,
                 nv_active, nv_live, nvquery_ok, calls, aux>>

\* `nvfancontrol -q` starts to fail (missing binary, timeout), or works again
QueryFlips ==
  /\ calls < MaxCalls
  /\ nvfancontrol
  /\ nvquery_ok' = ~nvquery_ok
  /\ last' = EnvStep
  /\ UNCHANGED <<nvfancontrol, fan_list, config, nodes, writable, nvconf,
                 status_file, nv_active, nv_live, calls, aux>>

Next ==
  \/ \E name \in NameInputs, profile \in ProfileInputs : SetProfile(name, profile)
  \/ \E name \in NameInputs, arg \in SpeedInputs : SetSpeed(name, arg[1], arg[2])
  \/ \E name \in NameInputs : GetProfile(name)
  \/ GetStatus
  \/ GetConfigs
  \/ Initialization
  \/ DaemonSaveStatus
  \/ QueryFlips

Spec == Init /\ [][Next]_vars

(***************************************************************************)
(* Startup: the service constructed over a configuration persisted by      *)
(* earlier runs, then initialization()                                     *)
(***************************************************************************)
\* the largest number of fans in the persisted configuration
MaxPersisted == 2
\* what may be persisted for a fan: a profile, a speed pair, or both
PersistedEntries ==
  LET profiles == {FAN_MANUAL_NAME, FAN_TEMP_CONTROL_NAME, P_cool}
      pair == <<30, 0>>
  IN {dict_set(EmptyDict, K_PROFILE, p) : p \in profiles}
     \cup {dict_set(dict_set(EmptyDict, K_PROFILE, p), K_SPEED, pair) : p \in profiles}
     \cup {dict_set(EmptyDict, K_SPEED, pair)}
\* the persisted configurations: up to MaxPersisted fans in any order
PersistedConfigs ==
  LET names == {N_pwmfan, N_fan1, N_fan2}
  IN UNION { {c \in [1..n -> [key : names, val : PersistedEntries]] :
                \A i, j \in 1..n : c[i].key = c[j].key => i = j} : n \in 0..MaxPersisted }

StartupInit == \E fan_config \in PersistedConfigs : StartedWith(fan_config)

StartupNext == Initialization

StartupSpec == StartupInit /\ [][StartupNext]_vars

(***************************************************************************)
(* The value codec on its own: ValueToPWM and PWMtoValue applied to every  *)
(* percent of -50..150 and every raw value of 0..CAP                       *)
(***************************************************************************)
\* the largest percent passed to the codec; the smallest is 100 - MaxPercent
MaxPercent == 150
PercentInputs == (100 - MaxPercent)..MaxPercent
RawInputs == 0..FAN_PWM_CAP

\* no board: the service has no fan and nothing to write
NoBoard ==
  /\ nvfancontrol = FALSE
  /\ fan_list = <<>>
  /\ config = <<>>
  /\ nodes = EmptyDict
  /\ writable = {}
  /\ nvconf = [exists |-> FALSE, lines |-> <<>>]
  /\ status_file = NoStatusFile
  /\ nv_active = FALSE
  /\ nv_live = <<>>
  /\ nvquery_ok = TRUE
  /\ calls = 0

\* the record of a call of a function: its argument and what it returned
Applied(op, arg, value) == [op |-> op, arg |-> arg, value |-> value]

CodecInit == NoBoard /\ NoAux /\ last = NoCall

CallValueToPWM(value) ==
  /\ last' = Applied("ValueToPWM", value, ValueToPWM(value))
  /\ UNCHANGED <<world, calls, aux>>

CallPWMtoValue(value) ==
  /\ last' = Applied("PWMtoValue", value, PWMtoValue(value))
  /\ UNCHANGED <<world, calls, aux>>

\* a percent written by set_speed (fan.py:436) and read back by get_status
\* (fan.py:449)
WriteThenRead(value) ==
  /\ last' = Applied("WriteThenRead", value, PWMtoValue(ValueToPWM(value)))
  /\ UNCHANGED <<world, calls, aux>>

CodecNext ==
  \/ \E value \in PercentInputs : CallValueToPWM(value)
  \/ \E value \in RawInputs : CallPWMtoValue(value)
  \/ \E value \in PercentInputs : WriteThenRead(value)

CodecSpec == CodecInit /\ [][CodecNext]_vars

(***************************************************************************)
(* Discovery: get_all_cooling_system over a directory tree.  The tree is   *)
(* [isdir, dirs]: whether the root is a directory and, in os.listdir       *)
(* order, its entries [dir, isdir, files, name], files in os.listdir order *)
(* and name the text of the entry's `name` file when it has one.           *)
(***************************************************************************)
ROOT_DIR == <<"/","s","y","s","/","c","l","a","s","s","/","h","w","m","o","n">>
S_pwm == <<"p","w","m">>
F_rpm == <<"r","p","m">>
F_temp1_input == <<"t","e","m","p","1","_","i","n","p","u","t">>

\* FAN_PWM_RE.match(file), FAN_PWM_RE = ^pwm\d+$ ($ also matches before a
\* final newline)
FAN_PWM_RE(file) ==
  LET n == IF file # <<>> /\ file[Len(file)] = "\n" THEN Len(file) - 1 ELSE Len(file)
  IN /\ StartsWithAt(file, 1, S_pwm)
     /\ n >= 4
     /\ \A i \in 4..n : file[i] \in Digits

\* cat(name_file).strip() if os.path.isfile(name_file) else dir
UnitName(entry) == IF entry.name.exists THEN str_strip(entry.name.text) ELSE entry.dir

\* the files of a directory that discovery takes for PWM nodes, as paths
PwmFiles(full_path, files) ==
  LET pwm_like == SelectSeq(files, LAMBDA file : FAN_PWM_RE(file) \/ file = F_target_pwm)
  IN [i \in 1..Len(pwm_like) |-> os_path_join(full_path, pwm_like[i])]

RpmMeasuredFiles(full_path, files) ==
  LET rpm_like == SelectSeq(files, LAMBDA file : file = F_rpm_measured)
  IN [i \in 1..Len(rpm_like) |-> os_path_join(full_path, rpm_like[i])]

\* get_all_rpm_system: name -> path of the `rpm` node of each directory
RECURSIVE RpmSystemDirs(_, _, _)
RpmSystemDirs(dirs, i, pwm_files) ==
  IF i > Len(dirs) THEN pwm_files
  ELSE LET entry == dirs[i]
           full_path == os_path_join(ROOT_DIR, entry.dir)
       IN IF entry.isdir /\ F_rpm \in Range(entry.files)
          THEN RpmSystemDirs(dirs, i + 1,
                             od_set(pwm_files, UnitName(entry), os_path_join(full_path, F_rpm)))
          ELSE RpmSystemDirs(dirs, i + 1, pwm_files)

get_all_rpm_system(tree) == RpmSystemDirs(tree.dirs, 1, <<>>)

\* the loop of get_all_cooling_system over the entries of the root.  The
\* variable `name` is bound by the first directory with PWM files and keeps
\* its value afterwards: a directory with rpm_measured and no PWM file
\* writes to the unit named last, or raises UnboundLocalError when there
\* is none yet.
RECURSIVE CoolingSystemDirs(_, _, _, _)
CoolingSystemDirs(dirs, i, pwm_files, name) ==
  IF i > Len(dirs) THEN Result("ok", pwm_files)
  ELSE
    LET entry == dirs[i]
        full_path == os_path_join(ROOT_DIR, entry.dir)
        fan_device_paths == PwmFiles(full_path, entry.files)
        fan_rpm_path == RpmMeasuredFiles(full_path, entry.files)
        found == fan_device_paths # <<>>
        name_now == IF found THEN [bound |-> TRUE, value |-> UnitName(entry)] ELSE name
        added == IF found
                 THEN od_set(pwm_files, name_now.value,
                             dict_set(dict_set(EmptyDict, K_PATH, full_path),
                                      K_PWM, fan_device_paths))
                 ELSE pwm_files
    IN IF ~entry.isdir THEN CoolingSystemDirs(dirs, i + 1, pwm_files, name)
       ELSE IF fan_rpm_path = <<>> THEN CoolingSystemDirs(dirs, i + 1, added, name_now)
       ELSE IF ~name_now.bound THEN Result("UnboundLocalError", pwm_files)
       ELSE CoolingSystemDirs(dirs, i + 1,
              od_set(added, name_now.value,
                     dict_set(od_get(added, name_now.value), K_RPM, fan_rpm_path)),
              name_now)

get_all_cooling_system(tree) ==
  IF ~tree.isdir THEN Result("ok", <<>>)
  ELSE
    LET walked == CoolingSystemDirs(tree.dirs, 1, <<>>, [bound |-> FALSE, value |-> <<>>])
        rpm_list == get_all_rpm_system(tree)
    IN IF walked.ret # "ok" THEN walked
       ELSE Result("ok",
              [i \in 1..Len(walked.value) |->
                 IF i <= Len(rpm_list)
                 THEN [key |-> walked.value[i].key,
                       val |-> dict_set(walked.value[i].val, K_RPM, <<rpm_list[i].val>>)]
                 ELSE walked.value[i]])

\* get_all_legacy_fan: every path returns the empty dict
get_all_legacy_fan == <<>>

\* a.update(b) on insertion-ordered dicts
RECURSIVE od_update(_, _)
od_update(a, b) ==
  IF b = <<>> THEN a ELSE od_update(od_set(a, b[1].key, b[1].val), Tail(b))

\* the largest number of entries under the root
MaxDirs == 3

F_name_text == <<"p","w","m","f","a","n","\n">>
NoNameFile == [exists |-> FALSE, text |-> <<>>]

\* what an entry of the root can be: a directory with one PWM node and a
\* tachometer, with a legacy PWM node, with a tachometer only, with two PWM
\* nodes and a tachometer, with a flat rpm node, with a PWM node and a name
\* file, with no fan file at all, or a plain file
DirContents ==
  { [isdir |-> TRUE, files |-> <<F_pwm1, F_rpm_measured>>, name |-> NoNameFile],
    [isdir |-> TRUE, files |-> <<F_target_pwm>>, name |-> NoNameFile],
    [isdir |-> TRUE, files |-> <<F_rpm_measured>>, name |-> NoNameFile],
    [isdir |-> TRUE, files |-> <<F_pwm1, F_rpm_measured, F_pwm2>>, name |-> NoNameFile],
    [isdir |-> TRUE, files |-> <<F_rpm>>, name |-> NoNameFile],
    [isdir |-> TRUE, files |-> <<F_pwm1>>, name |-> [exists |-> TRUE, text |-> F_name_text]],
    [isdir |-> TRUE, files |-> <<F_temp1_input>>, name |-> NoNameFile],
    [isdir |-> FALSE, files |-> <<>>, name |-> NoNameFile] }

\* the entry called hwmon<i-1> with the given content
DirEntry(i, content) ==
  [dir |-> <<"h","w","m","o","n">> \o NatToStr(i - 1), isdir |-> content.isdir,
   files |-> content.files, name |-> content.name]

Trees ==
  { [isdir |-> FALSE, dirs |-> <<>>] }
  \cup { [isdir |-> TRUE,
           dirs |-> [i \in 1..Len(contents) |-> DirEntry(i, contents[i])]] :
           contents \in UNION {[1..k -> DirContents] : k \in 0..MaxDirs} }

DiscoveryInit ==
  /\ NoBoard
  /\ last = NoCall
  /\ hwmon \in Trees
  /\ client_data = <<>>
  /\ client_init = <<>>
  /\ controller = <<>>

\* the discovery that opens FanService.__init__: the registry is what
\* get_all_cooling_system finds, updated with get_all_legacy_fan
Discover ==
  /\ last = NoCall
  /\ LET found == get_all_cooling_system(hwmon)
     IN /\ fan_list' = IF found.ret = "ok" THEN od_update(found.value, get_all_legacy_fan)
                                           ELSE fan_list
        /\ last' = [op |-> "discovery", ret |-> found.ret]
  /\ UNCHANGED <<nvfancontrol, config, nodes, writable, nvconf, status_file,
                 nv_active, nv_live, nvquery_ok, calls, aux>>

DiscoveryNext == Discover

DiscoverySpec == DiscoveryInit /\ [][DiscoveryNext]_vars

(***************************************************************************)
(* The daemon configuration file on its own: decode_nvfancontrol and       *)
(* change_nvfancontrol_default applied to files of up to MaxLines lines    *)
(***************************************************************************)
MaxLines == 3
T_PROFILE == <<"P","R","O","F","I","L","E">>
T_GOVERNOR == <<"G","O","V","E","R","N","O","R">>
K_GOVERNOR == <<"g","o","v","e","r","n","o","r">>
V_a == <<"a">>
V_b == <<"b">>

\* the lines of a file, each with what it is: a block header, an option
\* line, a default line (with what follows the value), or another line
HeaderLine(num) ==
  [kind |-> "header", num |-> num, text |-> S_FAN_OPEN \o num \o <<">", "\n">>]
OptionLine(type, value) ==
  [kind |-> "option", type |-> type, value |-> value,
   text |-> <<"\t">> \o S_FAN_ \o type \o <<" ">> \o value \o <<" ", "{", "\n">>]
DefaultLine(type, value, rest) ==
  [kind |-> "default", type |-> type, value |-> value, rest |-> rest,
   text |-> <<"\t">> \o S_FAN_DEFAULT_ \o type \o <<" ">> \o value \o rest \o <<"\n">>]
OtherLine(text) == [kind |-> "other", text |-> text]

ConfLines ==
  { HeaderLine(<<"0">>), HeaderLine(<<"1">>),
    OptionLine(T_PROFILE, V_a), OptionLine(T_PROFILE, V_b), OptionLine(T_GOVERNOR, V_a),
    DefaultLine(T_PROFILE, V_a, <<>>), DefaultLine(T_GOVERNOR, V_a, <<>>),
    DefaultLine(T_PROFILE, V_a, <<" ", "#", "a">>), DefaultLine(T_PROFILE, <<"A">>, <<>>),
    OtherLine(<<"\t", "}", "\n">>) }
ConfFiles == UNION { [1..n -> {l.text : l \in ConfLines}] : n \in 0..MaxLines }

ConfInit ==
  /\ nvfancontrol = FALSE
  /\ fan_list = <<>>
  /\ config = <<>>
  /\ nodes = EmptyDict
  /\ writable = {}
  /\ \E lines \in ConfFiles : nvconf = [exists |-> TRUE, lines |-> lines]
  /\ status_file = NoStatusFile
  /\ nv_active = FALSE
  /\ nv_live = <<>>
  /\ nvquery_ok = TRUE
  /\ calls = 0
  /\ last = NoCall
  /\ NoAux

DecodeConf ==
  /\ last = NoCall
  /\ LET nvfan == decode_nvfancontrol(nvconf)
     IN last' = [op |-> "decode_nvfancontrol", ret |-> nvfan.ret, value |-> nvfan.value]
  /\ UNCHANGED <<world, calls, aux>>

ChangeDefault(name, value) ==
  /\ last = NoCall
  /\ nvconf' = [nvconf EXCEPT !.lines = change_nvfancontrol_default(nvconf.lines, name, value)]
  /\ last' = [op |-> "change_nvfancontrol_default", name |-> name, value |-> value,
              before |-> nvconf.lines]
  /\ UNCHANGED <<nvfancontrol, fan_list, config, nodes, writable, status_file,
                 nv_active, nv_live, nvquery_ok, calls, aux>>

ConfNext ==
  \/ DecodeConf
  \/ \E name \in {K_PROFILE, K_GOVERNOR}, value \in {V_a, V_b} : ChangeDefault(name, value)

ConfSpec == ConfInit /\ [][ConfNext]_vars

(***************************************************************************)
(* The client facade (class Fan).  It holds the profile lists and the last *)
(* status snapshot the service sent, and puts commands on its channel.     *)
(* Each operation returns [ret, value, put]: the outcome, the value        *)
(* returned, and the commands put on the channel.                          *)
(***************************************************************************)
Outcome(ret, value, cmds) == [ret |-> ret, value |-> value, put |-> cmds]
Raise(ret) == Outcome(ret, <<>>, <<>>)

\* a == b for an int a and a float b held as an exact fraction
SameNumber(a, b) == a * b.den = b.num

\* Fan.all_profiles
Fan_all_profiles(data, init, name) ==
  IF ~od_has(data, name) THEN Raise("JtopException")
  ELSE IF ~od_has(init, name) THEN Raise("KeyError")
  ELSE Outcome("ok", od_get(init, name), <<>>)

\* Fan.set_profile
Fan_set_profile(data, init, name, profile) ==
  IF ~od_has(data, name) THEN Raise("JtopException")
  ELSE
    LET all_profiles == Fan_all_profiles(data, init, name)
    IN IF all_profiles.ret # "ok" THEN all_profiles
       ELSE IF profile \notin Range(all_profiles.value) THEN Raise("JtopException")
       ELSE IF K_PROFILE \notin DOMAIN od_get(data, name) THEN Raise("KeyError")
       ELSE IF profile = od_get(data, name)[K_PROFILE] THEN Outcome("ok", <<>>, <<>>)
       ELSE Outcome("ok", <<>>,
                    << [command |-> "profile", name |-> name, profile |-> profile] >>)

\* Fan.get_profile
Fan_get_profile(data, name) ==
  IF ~od_has(data, name) THEN Raise("JtopException")
  ELSE IF K_PROFILE \notin DOMAIN od_get(data, name) THEN Raise("KeyError")
  ELSE Outcome("ok", od_get(data, name)[K_PROFILE], <<>>)

\* a faulty variant of Fan.set_speed: a negative index is not refused
Fan_set_speed_no_lower(data, name, speed, idx) ==
  IF ~od_has(data, name) THEN Raise("JtopException")
  ELSE IF idx >= Len(od_get(data, name)[K_SPEED]) THEN Raise("JtopException")
  ELSE Outcome("ok", <<>>,
               << [command |-> "speed", name |-> name, speed |-> speed, idx |-> idx] >>)

\* Fan.set_speed
Fan_set_speed(data, name, speed, idx) ==
  IF ~od_has(data, name) THEN Raise("JtopException")
  ELSE
    LET speeds == od_get(data, name)[K_SPEED]
    IN IF idx >= Len(speeds) \/ idx < 0 THEN Raise("JtopException")
       ELSE IF SameNumber(speed, speeds[idx + 1]) THEN Outcome("ok", <<>>, <<>>)
       ELSE Outcome("ok", <<>>,
                    << [command |-> "speed", name |-> name, speed |-> speed, idx |-> idx] >>)

\* Fan.get_speed
Fan_get_speed(data, name, idx) ==
  IF ~od_has(data, name) THEN Raise("JtopException")
  ELSE
    LET speeds == od_get(data, name)[K_SPEED]
    IN IF idx >= Len(speeds) \/ idx < 0 THEN Raise("JtopException")
       ELSE Outcome("ok", speeds[idx + 1], <<>>)

\* Fan.get_rpm
Fan_get_rpm(data, name, idx) ==
  IF ~od_has(data, name) THEN Raise("JtopException")
  ELSE IF K_RPM \notin DOMAIN od_get(data, name) THEN Raise("JtopException")
  ELSE
    LET rpms == od_get(data, name)[K_RPM]
    IN IF idx >= Len(rpms) \/ idx < 0 THEN Raise("JtopException")
       ELSE Outcome("ok", rpms[idx + 1], <<>>)

\* the (speed, idx) pairs a client passes to Fan.set_speed, and the indices
\* it passes to the getters: valid ones, one past the end, a negative one
ClientSpeedInputs == { <<0, 0>>, <<30, 0>>, <<30, 1>>, <<30, 2>>, <<30, -1>> }
ClientIndexInputs == {-1, 0, 1, 2}
\* the names a client may pass: those of its snapshot and one that is not
ClientNameInputs == Range(od_keys(client_data)) \cup {N_nofan}

\* what one call on the facade does: the outcome is recorded, the commands
\* it put are appended to the channel, the snapshot is only read
FanCall(op, name, profile, speed, idx, r) ==
  /\ calls < MaxCalls
  /\ last' = Call(op, name, profile, speed, idx, r.ret, r.value, <<>>)
  /\ controller' = controller \o r.put
  /\ calls' = calls + 1
  /\ UNCHANGED <<world, hwmon, client_data, client_init>>

FanAllProfiles(name) ==
  FanCall("Fan.all_profiles", name, <<>>, 0, 0,
          Fan_all_profiles(client_data, client_init, name))

FanSetProfile(name, profile) ==
  FanCall("Fan.set_profile", name, profile, 0, 0,
          Fan_set_profile(client_data, client_init, name, profile))

FanGetProfile(name) ==
  FanCall("Fan.get_profile", name, <<>>, 0, 0, Fan_get_profile(client_data, name))

FanSetSpeed(name, speed, idx) ==
  FanCall("Fan.set_speed", name, <<>>, speed, idx,
          Fan_set_speed(client_data, name, speed, idx))

FanGetSpeed(name, idx) ==
  FanCall("Fan.get_speed", name, <<>>, 0, idx, Fan_get_speed(client_data, name, idx))

FanGetRpm(name, idx) ==
  FanCall("Fan.get_rpm", name, <<>>, 0, idx, Fan_get_rpm(client_data, name, idx))

\* a client connects: it receives the profile lists (get_configs) and the
\* first status snapshot (get_status) of the service
Attach ==
  /\ client_init = <<>>
  /\ LET configs == get_configs(World)
         status == get_status(World)
     IN /\ configs.ret = "ok" /\ status.ret = "ok"
        /\ client_init' = configs.value
        /\ client_data' = status.value
  /\ UNCHANGED <<world, last, calls, hwmon, controller>>

\* the service pushes a new status snapshot to the connected client
PushStatus ==
  /\ client_init # <<>>
  /\ LET status == get_status(World)
     IN /\ status.ret = "ok"
        /\ client_data' = status.value
  /\ UNCHANGED <<world, last, calls, hwmon, client_init, controller>>

\* the service takes the oldest command off the channel and runs it:
\* FanService.set_profile for a profile command, FanService.set_speed for a
\* speed command.  Nothing is sent back to the client.
Consume ==
  /\ controller # <<>>
  /\ LET command == Head(controller)
     IN \E r \in { IF command.command = "profile"
                   THEN set_profile(World, command.name, command.profile)
                   ELSE set_speed(World, command.name, command.speed, command.idx) } :
          Becomes(r.w)
  /\ controller' = Tail(controller)
  /\ UNCHANGED <<last, calls, hwmon, client_data, client_init>>

ClientNext ==
  \/ Attach
  \/ PushStatus
  \/ Consume
  \/ QueryFlips
  \/ \E name \in ClientNameInputs : FanAllProfiles(name)
  \/ \E name \in ClientNameInputs, profile \in ProfileInputs : FanSetProfile(name, profile)
  \/ \E name \in ClientNameInputs : FanGetProfile(name)
  \/ \E name \in ClientNameInputs, arg \in ClientSpeedInputs :
       FanSetSpeed(name, arg[1], arg[2])
  \/ \E name \in ClientNameInputs, idx \in ClientIndexInputs : FanGetSpeed(name, idx)
  \/ \E name \in ClientNameInputs, idx \in ClientIndexInputs : FanGetRpm(name, idx)

ClientSpec == Init /\ [][ClientNext]_vars

(***************************************************************************)
(* Properties                                                              *)
(***************************************************************************)
\* the step is a call of op on the service
IsCall(op) == calls' = calls + 1 /\ last'.op = op

\* the PWM paths of every registered fan
PwmPaths == UNION {Range(fan_list[i].val[K_PWM]) : i \in 1..Len(fan_list)}

\* C2: set_speed and set_profile called with a name that is not in the
\* registry fail with the unknown-fan outcome and write nothing: no node, no
\* daemon config, no daemon service state, no persisted configuration entry
\* changes and no external side effect is attempted.
C2_UnknownFanNeverWrites ==
  [][ (IsCall("set_speed") \/ IsCall("set_profile")) /\ ~od_has(fan_list, last'.name)
      => last'.ret = "unknown_fan" /\ last'.log = <<>> /\ UNCHANGED world ]_vars

\* an unregistered name was passed to set_profile while the daemon ran
C2_Witness ==
  /\ last.op = "set_profile" /\ ~od_has(fan_list, last.name)
  /\ last.profile = P_cool /\ nvfancontrol /\ nv_active
  /\ last.ret = "unknown_fan"

\* the profiles list of a registered fan (none when the fan has no list)
ProfilesOf(name) ==
  LET fan == od_get(fan_list, name)
  IN IF K_PROFILE \in DOMAIN fan THEN Range(fan[K_PROFILE]) ELSE {}

\* the step is a set_profile that repeats the set_profile made just before,
\* for a registered fan and a profile of its list
RepeatsSetProfile ==
  /\ last.op = "set_profile" /\ IsCall("set_profile")
  /\ last'.name = last.name /\ last'.profile = last.profile
  /\ od_has(fan_list, last.name) /\ last.profile \in ProfilesOf(last.name)

\* C1: set_profile called twice in succession with the same registered fan
\* and the same allowed profile, nothing happening in between, produces its
\* external side effects at most once: the second call is a no-op, in the
\* locally managed and in the daemon-managed mode.
C1_SetProfileIdempotent ==
  [][ RepeatsSetProfile => last'.log = <<>> /\ UNCHANGED world ]_vars

\* the default profile the daemon config gives to each of its fan blocks
ConfDefaults(conf) ==
  LET blocks == DaemonBlocks(conf.lines, 1, <<>>)
  IN {blocks[i].profile : i \in 1..Len(blocks)}

\* the step is a set_profile, in the daemon-managed mode, of a registered
\* fan to a profile of its list that get_profile does not report for it
DaemonProfileChange ==
  /\ IsCall("set_profile") /\ nvfancontrol
  /\ od_has(fan_list, last'.name) /\ last'.profile \in ProfilesOf(last'.name)
  /\ get_profile(World, last'.name).ret = "ok"
  /\ get_profile(World, last'.name).value # last'.profile

\* C3: in the daemon-managed mode, a set_profile to a non-manual profile
\* that is not already active stops the daemon if it is active, then
\* rewrites the default profile of the daemon config, then deletes the
\* cached status file if present, then starts the daemon, in this order; at
\* the end the daemon runs, no status file is left, and the daemon applies
\* the requested profile, which is the default of its config.
C3_DaemonChangeOrder ==
  [][ DaemonProfileChange /\ last'.profile # FAN_MANUAL_NAME
      => /\ last'.ret = "ok"
         /\ last'.log = (IF nv_active THEN <<"stop">> ELSE <<>>) \o <<"conf">>
                         \o (IF status_file.exists THEN <<"rm_status">> ELSE <<>>)
                         \o <<"start", "config">>
         /\ nv_active' /\ ~status_file'.exists
         /\ ConfDefaults(nvconf') = {last'.profile}
         /\ \A i \in 1..Len(nv_live') : nv_live'[i].profile = last'.profile ]_vars

\* the profile was changed while the daemon ran and had saved its status
C3_Witness ==
  /\ last.op = "set_profile" /\ nvfancontrol /\ last.profile = P_cool
  /\ last.log = <<"stop", "conf", "rm_status", "start", "config">>
  /\ nv_active /\ nv_live # <<>>

\* C4: in the daemon-managed mode, set_profile(name, "manual") on a fan
\* whose current profile is not manual stops the running daemon and leaves
\* it stopped: the daemon config and the cached status file are untouched,
\* the daemon is not started, and get_profile(name) then reports manual.
C4_DaemonManualStops ==
  [][ DaemonProfileChange /\ last'.profile = FAN_MANUAL_NAME
      => /\ last'.ret = "ok"
         /\ last'.log = <<"stop", "config">>
         /\ ~nv_active' /\ nvconf' = nvconf /\ status_file' = status_file
         /\ get_profile(World', last'.name) = Result("ok", FAN_MANUAL_NAME) ]_vars

\* manual was requested while the daemon ran and had saved its status
C4_Witness ==
  /\ last.op = "set_profile" /\ nvfancontrol /\ last.profile = FAN_MANUAL_NAME
  /\ last.log = <<"stop", "config">> /\ status_file.exists /\ ~nv_active

\* C5: in every status snapshot returned by get_status, each registered fan
\* has a profile field whose value is a member of that fan's profiles list,
\* in every reachable state (locally managed, daemon active, also when the
\* live query returns nothing or fewer fans than the registry, and daemon
\* inactive).
C5_StatusProfileInList ==
  last.op = "get_status"
  => /\ last.ret = "ok"
     /\ Len(last.value) = Len(fan_list)
     /\ \A i \in 1..Len(last.value) :
          LET status == last.value[i].val
          IN /\ last.value[i].key = fan_list[i].key
             /\ K_PROFILE \in DOMAIN status
             /\ status[K_PROFILE] \in ProfilesOf(fan_list[i].key)

\* C6: for every registered fan and every reachable state, the profile field
\* get_status reports for the fan equals what get_profile(name) returns in
\* the same state.
C6_StatusAgreesWithGetProfile ==
  last.op = "get_status" /\ last.ret = "ok"
  => \A i \in 1..Len(last.value) :
       LET status == last.value[i].val
           profile == get_profile(World, last.value[i].key)
       IN /\ profile.ret = "ok"
          /\ K_PROFILE \in DOMAIN status
          /\ status[K_PROFILE] = profile.value

\* C7: when the fan is daemon-managed and the daemon is active, get_profile
\* returns the profile the live query reports for the fan called name, for
\* every registered fan and every order of the fans in the query output.
C7_GetProfileByName ==
  LET nvfan_query == nvfancontrol_query(QueryOutput(World)).value
  IN last.op = "get_profile" /\ nvfancontrol /\ nv_active
     /\ od_has(fan_list, last.name) /\ od_has(nvfan_query, last.name)
     => /\ last.ret = "ok"
        /\ last.value = od_get(nvfan_query, last.name)[K_PROFILE]

\* C8: set_profile called with a registered fan and a profile that is not
\* in that fan's profiles list fails with the unknown-profile outcome and
\* changes nothing.
C8_UnknownProfileRejected ==
  [][ IsCall("set_profile") /\ od_has(fan_list, last'.name)
      /\ last'.profile \notin ProfilesOf(last'.name)
      => last'.ret = "unknown_profile" /\ last'.log = <<>> /\ UNCHANGED world ]_vars

\* C9: set_speed called with a registered fan and an index outside
\* 0..(number of PWM paths - 1), negative indices included, fails with the
\* bad-index outcome and changes nothing: no PWM node is written and the
\* persisted configuration is not updated.
C9_BadIndexRejected ==
  [][ IsCall("set_speed") /\ od_has(fan_list, last'.name)
      /\ last'.index \notin 0..(Len(od_get(fan_list, last'.name)[K_PWM]) - 1)
      => last'.ret = "bad_index" /\ last'.log = <<>> /\ UNCHANGED world ]_vars

\* the bound of [0,100] nearest to a percent value
NearestPercent(speed) == IF speed < 0 THEN 0 ELSE IF speed > 100 THEN 100 ELSE speed

\* C10: for every percent value, below 0 and above 100 included, set_speed
\* clamps it to the nearest bound of [0,100] before persisting it and
\* before converting it: the persisted percent is in [0,100] and the raw
\* value written to the PWM node is in 0..CAP.
C10_SpeedClamped ==
  /\ \A path \in PwmPaths : nodes[path] \in 0..FAN_PWM_CAP
  /\ \A i \in 1..Len(config) :
       K_SPEED \in DOMAIN config[i].val => config[i].val[K_SPEED][1] \in 0..100
  /\ last.op = "set_speed" /\ "config" \in Range(last.log)
     => /\ od_get(config, last.name)[K_SPEED] = <<NearestPercent(last.speed), last.index>>
        /\ "pwm" \in Range(last.log) /\ last.index >= 0
           => nodes[od_get(fan_list, last.name)[K_PWM][last.index + 1]]
                = ValueToPWM(NearestPercent(last.speed))

\* a speed above 100 was written: the node holds the raw value of 100
C10_Witness ==
  /\ last.op = "set_speed" /\ last.speed = 150 /\ last.index = 0
  /\ last.ret = "ok" /\ last.log = <<"config", "pwm">>
  /\ nodes[od_get(fan_list, last.name)[K_PWM][1]] = FAN_PWM_CAP
  /\ od_get(config, last.name)[K_SPEED] = <<100, 0>>

\* C11: ValueToPWM itself clamps inputs outside [0,100] to the nearest
\* bound before conversion: for every p < 0 it returns the raw value of 0
\* and for every p > 100 the raw value of 100.
C11_ValueToPWMClamps ==
  last.op = "ValueToPWM" => last.value = ValueToPWM(NearestPercent(last.arg))

\* the integer nearest to n / d, for n >= 0 and d > 0
RoundDiv(n, d) == (2 * n + d) \div (2 * d)

\* C12: for every integer percent p in 0..100 and CAP = 256, ValueToPWM(p)
\* equals round(p * CAP / 100), the integer nearest to p * CAP / 100.
C12_ValueToPWMRounds ==
  last.op = "ValueToPWM" /\ last.arg \in 0..100
  => last.value = RoundDiv(last.arg * FAN_PWM_CAP, 100)

Abs(x) == IF x < 0 THEN -x ELSE x

\* C13: for all p in [0,100] and CAP = 256, PWMtoValue(ValueToPWM(p))
\* differs from p by at most one rounding unit, 100/CAP, the percent value
\* of one raw PWM step.
C13_RoundTripWithinOneStep ==
  last.op = "WriteThenRead" /\ last.arg \in 0..100
  => /\ last.value.den > 0
     /\ Abs(last.value.num - last.arg * last.value.den) * FAN_PWM_CAP
          <= 100 * last.value.den

\* a percent that is no multiple of 100/CAP went through both conversions
C13_Witness ==
  /\ last.op = "WriteThenRead" /\ last.arg = 99
  /\ last.value = [num |-> 6325, den |-> 64]

\* C14: get_status returns, for every registered fan, exactly one speed per
\* PWM path, in the order of the fan's PWM paths, each equal to the raw
\* value read from that node times 100 divided by CAP (raw 128 and 64 with
\* CAP 256 give [50.0, 25.0]).
C14_StatusSpeeds ==
  last.op = "get_status" /\ last.ret = "ok"
  => /\ Len(last.value) = Len(fan_list)
     /\ \A i \in 1..Len(fan_list) :
          LET pwms == fan_list[i].val[K_PWM]
              status == last.value[i].val
          IN /\ last.value[i].key = fan_list[i].key
             /\ K_SPEED \in DOMAIN status
             /\ Len(status[K_SPEED]) = Len(pwms)
             /\ \A j \in 1..Len(pwms) :
                  LET speed == status[K_SPEED][j]
                  IN /\ speed.den > 0
                     /\ speed.num * FAN_PWM_CAP = nodes[pwms[j]] * 100 * speed.den

\* the status of a fan whose two PWM nodes hold 128 and 64 was read
C14_Witness ==
  /\ last.op = "get_status" /\ last.ret = "ok"
  /\ \E i \in 1..Len(fan_list) :
       /\ Len(fan_list[i].val[K_PWM]) = 2
       /\ nodes[fan_list[i].val[K_PWM][1]] = 128
       /\ nodes[fan_list[i].val[K_PWM][2]] = 64
       /\ last.value[i].val[K_SPEED] = <<[num |-> 50, den |-> 1], [num |-> 25, den |-> 1]>>

\* C15: every unit of the registry built by discovery has a non-empty list
\* of PWM paths, and when it has an RPM path list that list is as long as
\* its PWM path list, for every directory layout (several pwm<N> files in
\* one directory and flat rpm nodes in sibling directories included).
C15_UnitPathLists ==
  last.op = "discovery" /\ last.ret = "ok"
  => \A i \in 1..Len(fan_list) :
       LET unit == fan_list[i].val
       IN /\ unit[K_PWM] # <<>>
          /\ K_RPM \in DOMAIN unit => Len(unit[K_RPM]) = Len(unit[K_PWM])

\* the entry is a directory that holds at least one PWM-like file
HoldsPwm(entry) ==
  entry.isdir /\ PwmFiles(os_path_join(ROOT_DIR, entry.dir), entry.files) # <<>>

\* the entry holds no PWM-like file and no flat rpm node
IsInert(entry) == ~HoldsPwm(entry) /\ ~(entry.isdir /\ F_rpm \in Range(entry.files))

\* the tree without the entries that hold no PWM-like file and no rpm node
WithoutInert(tree) ==
  [tree EXCEPT !.dirs = SelectSeq(@, LAMBDA entry : ~IsInert(entry))]

\* C17: discovery registers exactly one unit for each immediate
\* subdirectory that holds at least one PWM-like file (pwm<N> or
\* target_pwm), with as many PWM paths as such files; a subdirectory
\* without any PWM-like file (one holding only rpm_measured, for instance)
\* contributes no unit and does not alter or break any other unit.
C17_OneUnitPerPwmDirectory ==
  last.op = "discovery"
  => /\ last.ret = "ok"
     /\ Len(fan_list) = Cardinality({i \in 1..Len(hwmon.dirs) : HoldsPwm(hwmon.dirs[i])})
     /\ \A i \in 1..Len(hwmon.dirs) :
          LET full_path == os_path_join(ROOT_DIR, hwmon.dirs[i].dir)
              units == {j \in 1..Len(fan_list) : fan_list[j].val[K_PATH] = full_path}
          IN IF HoldsPwm(hwmon.dirs[i])
             THEN /\ Cardinality(units) = 1
                  /\ \A j \in units :
                       fan_list[j].val[K_PWM] = PwmFiles(full_path, hwmon.dirs[i].files)
             ELSE units = {}
     /\ get_all_cooling_system(WithoutInert(hwmon)) = Result("ok", fan_list)

\* C16: after FanService construction, every registered fan has a profiles
\* list and that list contains "manual", in the locally managed and in the
\* daemon-managed mode (also when the daemon config has fewer fan blocks
\* than the registry has fans).
C16_ProfilesListHasManual ==
  \A i \in 1..Len(fan_list) :
    /\ K_PROFILE \in DOMAIN fan_list[i].val
    /\ FAN_MANUAL_NAME \in Range(fan_list[i].val[K_PROFILE])

\* C18: the set of fan names of the registry is fixed once FanService is
\* constructed: no initialization, get_profile, set_profile, set_speed,
\* get_status or get_configs call adds, removes or renames a fan.
C18_RegistryNamesFixed ==
  [][ od_keys(fan_list') = od_keys(fan_list) ]_vars

\* a speed was persisted and written, and initialization then replayed a
\* persisted profile with side effects
C18_Witness ==
  /\ calls = MaxCalls /\ last.op = "initialization" /\ last.log # <<>>
  /\ config # <<>> /\ Len(fan_list) = 2

\* the step is a set_profile or set_speed call that repeats, with the same
\* arguments, the call made just before
RepeatsCommand ==
  /\ last.op \in {"set_profile", "set_speed"} /\ IsCall(last.op)
  /\ last'.name = last.name /\ last'.profile = last.profile
  /\ last'.speed = last.speed /\ last'.index = last.index

\* C19: every mutating command is idempotent on the controller state: the
\* same set_profile or set_speed applied twice in a row leaves the hardware
\* nodes, the daemon service state, the daemon config and the persisted
\* configuration as applying it once does.
C19_CommandsIdempotent ==
  [][ RepeatsCommand => UNCHANGED world ]_vars

\* set_profile was repeated on a fan it had already written to
C19_Witness ==
  /\ calls = MaxCalls /\ last.op = "set_profile" /\ last.ret = "ok"
  /\ last.log = <<"control", "config">>
  /\ od_has(config, last.name) /\ od_get(config, last.name)[K_PROFILE] = last.profile

\* the request recorded in c names a fan the snapshot lacks, a profile outside
\* the fan's list, an index outside the fan's speeds or tachometers, or the
\* tachometers of a fan that has none
NotInBounds(idx, list) == idx < 0 \/ idx >= Len(list)
BadRequest(c) ==
  \/ ~od_has(client_data, c.name)
  \/ /\ c.op = "Fan.set_profile"
     /\ od_has(client_init, c.name)
     /\ c.profile \notin Range(od_get(client_init, c.name))
  \/ /\ c.op \in {"Fan.set_speed", "Fan.get_speed"}
     /\ NotInBounds(c.index, od_get(client_data, c.name)[K_SPEED])
  \/ /\ c.op = "Fan.get_rpm"
     /\ \/ K_RPM \notin DOMAIN od_get(client_data, c.name)
        \/ NotInBounds(c.index, od_get(client_data, c.name)[K_RPM])

\* C20: a call on the client facade (all_profiles, set_profile, get_profile,
\* set_speed, get_speed, get_rpm) whose fan name is not in the snapshot, whose
\* profile is not in the fan's list, whose index is negative or not below the
\* length, or that asks the tachometers of a fan without any, raises
\* JtopException and puts no command on the channel.
C20_BadRequestsRefused ==
  [][ (calls' = calls + 1 /\ BadRequest(last'))
        => (last'.ret = "JtopException" /\ controller' = controller) ]_vars
\* a negative index on a fan of the snapshot was refused while an earlier
\* command was waiting on the channel
C20_Witness ==
  /\ last.op = "Fan.set_speed" /\ last.index = -1
  /\ od_has(client_data, last.name)
  /\ last.ret = "JtopException"
  /\ Len(controller) = 1

\* what a line of the file is
ShapeOf(text) == CHOOSE l \in ConfLines : l.text = text
Shapes(lines) == [i \in 1..Len(lines) |-> ShapeOf(lines[i])]
Lowered(type) == IF type = T_PROFILE THEN K_PROFILE ELSE K_GOVERNOR
\* the option lines of the block whose header is line h: those after h and
\* before the next header
BlockLines(shapes, h) ==
  LET later == {j \in (h + 1)..Len(shapes) : shapes[j].kind = "header"}
      end == IF later = {} THEN Len(shapes)
             ELSE (CHOOSE j \in later : \A k \in later : j <= k) - 1
  IN SelectSeq(SubSeq(shapes, h + 1, end), LAMBDA l : l.kind = "option")
\* each lowercased type of the block with the list of its values, in file order
BlockOptions(shapes, h) ==
  LET options == BlockLines(shapes, h)
  IN [type \in {Lowered(options[j].type) : j \in 1..Len(options)} |->
        LET mine == SelectSeq(options, LAMBDA l : Lowered(l.type) = type)
        IN [j \in 1..Len(mine) |-> mine[j].value]]

\* C21: decode_nvfancontrol of a file made of block headers and option lines
\* only (none at all included) returns without error one entry fan{n} per
\* block, and the entry maps each lowercased type of the block to the list
\* of its values in the order of the file.
C21_DecodeBlocks ==
  LET shapes == Shapes(nvconf.lines)
      headers == {h \in 1..Len(shapes) : shapes[h].kind = "header"}
  IN (/\ last.op = "decode_nvfancontrol"
      /\ \A j \in 1..Len(shapes) : shapes[j].kind \in {"header", "option"})
     => /\ last.ret = "ok"
        /\ Len(last.value) = Cardinality(headers)
        /\ \A h \in headers :
             /\ od_has(last.value, S_fan \o shapes[h].num)
             /\ od_get(last.value, S_fan \o shapes[h].num) = BlockOptions(shapes, h)

Typed(name) == IF name = K_PROFILE THEN T_PROFILE ELSE T_GOVERNOR

\* C22: change_nvfancontrol_default(name, value) keeps the number and order
\* of the lines, leaves every line that is not a default line of the
\* requested type as it was, and in a default line of the requested type
\* replaces the value token and nothing else.
C22_OnlyValueTokenChanges ==
  last.op = "change_nvfancontrol_default"
  => /\ Len(nvconf.lines) = Len(last.before)
     /\ \A i \in 1..Len(last.before) :
          LET shape == ShapeOf(last.before[i])
          IN nvconf.lines[i] =
               IF shape.kind = "default" /\ shape.type = Typed(last.name)
               THEN DefaultLine(shape.type, last.value, shape.rest).text
               ELSE last.before[i]

\* C23: on a locally managed fan with a writable control toggle, after a
\* set_profile(name, p) that succeeded for a profile p of the fan's list, the
\* control node holds the flag of p (1 for temp_control, 0 for manual) and
\* get_profile(name) returns p.
C23_LocalToggleFollowsProfile ==
  (/\ last.op = "set_profile" /\ last.ret \in {"ok", "already_active"}
   /\ ~nvfancontrol
   /\ last.profile \in ProfilesOf(last.name)
   /\ K_CONTROL \in DOMAIN od_get(fan_list, last.name)
   /\ od_get(fan_list, last.name)[K_CONTROL] \in writable)
  => /\ nodes[od_get(fan_list, last.name)[K_CONTROL]]
          = (IF last.profile = FAN_TEMP_CONTROL_NAME THEN 1 ELSE 0)
     /\ get_profile(World, last.name).value = last.profile

\* the channel is drained and the client holds the snapshot of the present
\* state
Settled ==
  /\ controller = <<>>
  /\ client_init # <<>>
  /\ get_status(World).ret = "ok"
  /\ client_data = get_status(World).value

\* C24: the last call of the client was a set_speed the facade accepted;
\* once the channel is drained and the snapshot pushed, the PWM node of that
\* fan and index, when writable, holds the raw value of the speed of that
\* last call.
C24_LastRequestWins ==
  (/\ Settled
   /\ last.op = "Fan.set_speed" /\ last.ret = "ok"
   /\ od_has(fan_list, last.name)
   /\ od_get(fan_list, last.name)[K_PWM][last.index + 1] \in writable)
  => nodes[od_get(fan_list, last.name)[K_PWM][last.index + 1]] = ValueToPWM(last.speed)

\* the PWM path a successful set_speed addresses: position idx of the fan's
\* list, counted from the end when idx is negative
TargetPath(name, index) ==
  LET pwms == od_get(fan_list, name)[K_PWM]
  IN pwms[IF index >= 0 THEN index + 1 ELSE Len(pwms) + index + 1]

\* the persisted entry of a fan without its speed pair
EntryButSpeed(cfg, name) ==
  IF od_has(cfg, name)
  THEN [k \in DOMAIN od_get(cfg, name) \ {K_SPEED} |-> od_get(cfg, name)[k]]
  ELSE EmptyDict

C26_OtherFansKeepProfile ==
  [][ IsCall("set_profile")
      => \A other \in Range(od_keys(fan_list)) \ {last'.name} :
           get_profile(World', other) = get_profile(World, other) ]_vars

\* the speed pair persisted for the fan is (speed, index)
Recorded(name, speed, index) ==
  /\ od_has(config, name)
  /\ K_SPEED \in DOMAIN od_get(config, name)
  /\ od_get(config, name)[K_SPEED] = <<speed, index>>

\* C27: a set_speed on the service whose clamped percent equals the value
\* last recorded for that fan and index writes no PWM node and does not
\* update the persisted configuration; a set_speed on the client whose speed
\* equals the snapshot speed at that index puts no command on the channel.
C27_UnchangedSpeedIsNoOp ==
  [][ /\ (/\ IsCall("set_speed") /\ od_has(fan_list, last'.name)
          /\ Recorded(last'.name, NearestPercent(last'.speed), last'.index))
         => last'.log = <<>>
      /\ (/\ IsCall("Fan.set_speed") /\ last'.ret = "ok"
          /\ SameNumber(last'.speed,
                        od_get(client_data, last'.name)[K_SPEED][last'.index + 1]))
         => controller' = controller ]_vars

\* the persisted entry asks for the manual profile and holds a speed pair
ManualWithSpeed(entry) ==
  /\ K_PROFILE \in DOMAIN entry /\ entry[K_PROFILE] = FAN_MANUAL_NAME
  /\ K_SPEED \in DOMAIN entry
\* the number of PWM writes among the side effects
PwmWrites(log) == Cardinality({i \in 1..Len(log) : log[i] = "pwm"})

InRegistryOrder(cfg) ==
  LET registered == SelectSeq(fan_list, LAMBDA f : od_has(cfg, f.key))
  IN [i \in 1..Len(registered) |->
        [key |-> registered[i].key, val |-> od_get(cfg, registered[i].key)]]
     \o SelectSeq(cfg, LAMBDA e : ~od_has(fan_list, e.key))

\* C29: initialization() issues its set_profile / set_speed calls in the
\* order of the registry, whatever the order of the persisted configuration:
\* nodes, daemon config, status file and daemon state after it are those of
\* the replay made in registry order.
C29_ReplayInRegistryOrder ==
  [][ IsCall("initialization")
      => LET expected == InitializationFans(World, InRegistryOrder(config), 1)
         IN /\ last'.ret = expected.ret
            /\ nodes' = expected.w.nodes
            /\ nvconf' = expected.w.nvconf
            /\ status_file' = expected.w.status_file
            /\ nv_active' = expected.w.nv_active
            /\ nv_live' = expected.w.nv_live ]_vars

====
